---- MODULE Spec2Model ----
(***************************************************************************)
(* A model of the MenuBot backend (src/backend): the Ollama gateway with   *)
(* its per-session conversation history (ollama_client.py), the menu       *)
(* generator (menu_generator.py) and the HTTP routes that call it          *)
(* (main.py).                                                              *)
(*                                                                         *)
(* Text.  A Python str is a sequence of chunks, each chunk a TLA+ string;  *)
(* concatenation is \o.  Wherever the code looks inside a string (lower(), *)
(* the `in` substring test, startswith, json.loads, re.search) the text is *)
(* written one character per chunk.  Where the code only stores or passes  *)
(* a text on, it is a single chunk.                                        *)
(*                                                                         *)
(* Python values are tagged records [t |-> type, v |-> payload]:           *)
(*   "str"  v is the text            "list" v is a sequence of values      *)
(*   "dict" v is a function from key texts to values                       *)
(*   "int"  v is its decimal digits  "none" v is <<>>                      *)
(*   "bool" v is <<"true">> or <<"false">>                                 *)
(***************************************************************************)
EXTENDS Integers, Sequences, FiniteSets, TLC

VARIABLES
    conversation_history,  \* OllamaClient.conversation_history: session id -> messages
    current_model,         \* OllamaClient.current_model
    nodes,                 \* rows of the nodes table written by the execute-action route
    clock,                 \* ghost: number of messages stored so far (stamps a message)
    last                   \* the call in progress or last completed: [op, args, ret]

vars == <<conversation_history, current_model, nodes, clock, last>>

----------------------------------------------------------------------------
(* Bounds of the model.                                                    *)

\* longest candidate list drawn for the filter and the validator
MaxItems == 2
\* longest completed-actions list drawn from the pool of entries
MaxCompleted == 2
\* a gateway call is made while fewer messages than this have been stored
MaxMessages == 4
\* a request is served while fewer messages than this have been stored
MaxBacklog == 1
\* longest list handed to the validator
MaxRaw == 3

----------------------------------------------------------------------------
(* Text literals.                                                          *)

\* 'title'
K_title ==
    <<"t", "i", "t", "l", "e">>

\* 'prompt'
K_prompt ==
    <<"p", "r", "o", "m", "p", "t">>

\* 'tools'
K_tools ==
    <<"t", "o", "o", "l", "s">>

\* 'alt'
K_alt ==
    <<"a", "l", "t">>

\* 'icon'
K_icon ==
    <<"i", "c", "o", "n">>

\* 'error'
K_error ==
    <<"e", "r", "r", "o", "r">>

\* 'raw_response'
K_raw_response ==
    <<"r", "a", "w", "_", "r", "e", "s", "p", "o", "n", "s", "e">>

\* 'research'
S_research ==
    <<"r", "e", "s", "e", "a", "r", "c", "h">>

\* 'analyze'
S_analyze ==
    <<"a", "n", "a", "l", "y", "z", "e">>

\* 'analyz'
S_analyz ==
    <<"a", "n", "a", "l", "y", "z">>

\* 'identify'
S_identify ==
    <<"i", "d", "e", "n", "t", "i", "f", "y">>

\* 'identif'
S_identif ==
    <<"i", "d", "e", "n", "t", "i", "f">>

\* 'develop'
S_develop ==
    <<"d", "e", "v", "e", "l", "o", "p">>

\* 'create'
S_create ==
    <<"c", "r", "e", "a", "t", "e">>

\* 'creat'
S_creat ==
    <<"c", "r", "e", "a", "t">>

\* 'design'
S_design ==
    <<"d", "e", "s", "i", "g", "n">>

\* 'Next Phase'
T_NextPhase ==
    <<"N", "e", "x", "t", " ", "P", "h", "a", "s", "e">>

\* 'Deep Dive'
T_DeepDive ==
    <<"D", "e", "e", "p", " ", "D", "i", "v", "e">>

\* 'Create Deliverable'
T_CreateDeliverable ==
    <<"C", "r", "e", "a", "t", "e", " ", "D", "e", "l", "i", "v", "e", "r", "a", "b", "l", "e">>

\* 'Analyze Current State'
T_AnalyzeCurrentState ==
    <<"A", "n", "a", "l", "y", "z", "e", " ", "C", "u", "r", "r", "e", "n", "t", " ", "S", "t",
    "a", "t", "e">>

\* 'Strategic Planning'
T_StrategicPlanning ==
    <<"S", "t", "r", "a", "t", "e", "g", "i", "c", " ", "P", "l", "a", "n", "n", "i", "n", "g">>

\* 'Research Options'
T_ResearchOptions ==
    <<"R", "e", "s", "e", "a", "r", "c", "h", " ", "O", "p", "t", "i", "o", "n", "s">>

\* 'Next Steps'
T_NextSteps ==
    <<"N", "e", "x", "t", " ", "S", "t", "e", "p", "s">>

\* 'Create Report'
T_CreateReport ==
    <<"C", "r", "e", "a", "t", "e", " ", "R", "e", "p", "o", "r", "t">>

\* 'Analyze Competitors'
T_AnalyzeCompetitors ==
    <<"A", "n", "a", "l", "y", "z", "e", " ", "C", "o", "m", "p", "e", "t", "i", "t", "o", "r",
    "s">>

\* 'Analyzed market trends'
T_AnalyzedMarketTrends ==
    <<"A", "n", "a", "l", "y", "z", "e", "d", " ", "m", "a", "r", "k", "e", "t", " ", "t", "r",
    "e", "n", "d", "s">>

\* 'Plan'
T_Plan ==
    <<"P", "l", "a", "n">>

\* 'Review Results'
T_ReviewResults ==
    <<"R", "e", "v", "i", "e", "w", " ", "R", "e", "s", "u", "l", "t", "s">>

\* 'Continue Planning'
T_ContinuePlanning ==
    <<"C", "o", "n", "t", "i", "n", "u", "e", " ", "P", "l", "a", "n", "n", "i", "n", "g">>

\* 'Report'
T_Report ==
    <<"R", "e", "p", "o", "r", "t">>

\* 'Error: '
S_ErrorPrefix ==
    <<"E", "r", "r", "o", "r", ":", " ">>

\* 'null'
S_null ==
    <<"n", "u", "l", "l">>

\* 'true'
S_true ==
    <<"t", "r", "u", "e">>

\* 'false'
S_false ==
    <<"f", "a", "l", "s", "e">>

\* 'content'
K_content ==
    <<"c", "o", "n", "t", "e", "n", "t">>

\* 'next_actions'
K_next_actions ==
    <<"n", "e", "x", "t", "_", "a", "c", "t", "i", "o", "n", "s">>

\* 'executed_at'
K_executed_at ==
    <<"e", "x", "e", "c", "u", "t", "e", "d", "_", "a", "t">>

\* 'model_used'
K_model_used ==
    <<"m", "o", "d", "e", "l", "_", "u", "s", "e", "d">>

\* 'action_prompt'
K_action_prompt ==
    <<"a", "c", "t", "i", "o", "n", "_", "p", "r", "o", "m", "p", "t">>

\* 'role'
K_role ==
    <<"r", "o", "l", "e">>

\* 'context'
K_context ==
    <<"c", "o", "n", "t", "e", "x", "t">>

\* 'parent_content'
K_parent_content ==
    <<"p", "a", "r", "e", "n", "t", "_", "c", "o", "n", "t", "e", "n", "t">>

\* 'menu_items'
K_menu_items ==
    <<"m", "e", "n", "u", "_", "i", "t", "e", "m", "s">>

\* 'result'
K_result ==
    <<"r", "e", "s", "u", "l", "t">>

\* 'new_node_id'
K_new_node_id ==
    <<"n", "e", "w", "_", "n", "o", "d", "e", "_", "i", "d">>

\* 'suggested_next_actions'
K_suggested_next_actions ==
    <<"s", "u", "g", "g", "e", "s", "t", "e", "d", "_", "n", "e", "x", "t", "_", "a", "c", "t",
    "i", "o", "n", "s">>

\* '[{"title":"Research Options"},{"title":"Create Report","prompt":"Draft it"}]'
R_Menu ==
    <<"[", "{", "\"", "t", "i", "t", "l", "e", "\"", ":", "\"", "R", "e", "s", "e", "a", "r",
    "c", "h", " ", "O", "p", "t", "i", "o", "n", "s", "\"", "}", ",", "{", "\"", "t", "i", "t",
    "l", "e", "\"", ":", "\"", "C", "r", "e", "a", "t", "e", " ", "R", "e", "p", "o", "r", "t",
    "\"", ",", "\"", "p", "r", "o", "m", "p", "t", "\"", ":", "\"", "D", "r", "a", "f", "t",
    " ", "i", "t", "\"", "}", "]">>

\* '["Review","Share","Plan","Extra"]'
R_Titles ==
    <<"[", "\"", "R", "e", "v", "i", "e", "w", "\"", ",", "\"", "S", "h", "a", "r", "e", "\"",
    ",", "\"", "P", "l", "a", "n", "\"", ",", "\"", "E", "x", "t", "r", "a", "\"", "]">>

\* 'Here you go: {"a":1} thanks'
R_ProseObject ==
    <<"H", "e", "r", "e", " ", "y", "o", "u", " ", "g", "o", ":", " ", "{", "\"", "a", "\"",
    ":", "1", "}", " ", "t", "h", "a", "n", "k", "s">>

\* 'not json at all'
R_Prose ==
    <<"n", "o", "t", " ", "j", "s", "o", "n", " ", "a", "t", " ", "a", "l", "l">>

\* '[{"title":""},{"title":7}]'
R_BlankTitle ==
    <<"[", "{", "\"", "t", "i", "t", "l", "e", "\"", ":", "\"", "\"", "}", ",", "{", "\"", "t",
    "i", "t", "l", "e", "\"", ":", "7", "}", "]">>

\* '["error",{"title":"Plan"}]'
R_ErrorList ==
    <<"[", "\"", "e", "r", "r", "o", "r", "\"", ",", "{", "\"", "t", "i", "t", "l", "e", "\"",
    ":", "\"", "P", "l", "a", "n", "\"", "}", "]">>

\* 'Here you go: '
P_HereYouGo ==
    <<"H", "e", "r", "e", " ", "y", "o", "u", " ", "g", "o", ":", " ">>

\* 'Sure!\n'
P_Sure ==
    <<"S", "u", "r", "e", "!", "\n">>

\* ' thanks'
P_Thanks ==
    <<" ", "t", "h", "a", "n", "k", "s">>

\* '\nDone.'
P_Done ==
    <<"\n", "D", "o", "n", "e", ".">>

\* '{"a":1}'
J_Object ==
    <<"{", "\"", "a", "\"", ":", "1", "}">>

\* '{"title":"Plan","tools":["x"]}'
J_Item ==
    <<"{", "\"", "t", "i", "t", "l", "e", "\"", ":", "\"", "P", "l", "a", "n", "\"", ",", "\"",
    "t", "o", "o", "l", "s", "\"", ":", "[", "\"", "x", "\"", "]", "}">>

\* '{"a":{"b":null}}'
J_Nested ==
    <<"{", "\"", "a", "\"", ":", "{", "\"", "b", "\"", ":", "n", "u", "l", "l", "}", "}">>

\* '{}'
J_EmptyObject ==
    <<"{", "}">>

\* '[{"a":1}]'
J_OneItemArray ==
    <<"[", "{", "\"", "a", "\"", ":", "1", "}", "]">>

\* '[{"title":"Plan"},{"title":"Share"}]'
J_Menu ==
    <<"[", "{", "\"", "t", "i", "t", "l", "e", "\"", ":", "\"", "P", "l", "a", "n", "\"", "}",
    ",", "{", "\"", "t", "i", "t", "l", "e", "\"", ":", "\"", "S", "h", "a", "r", "e", "\"",
    "}", "]">>

\* '{"a":'
U_Truncated ==
    <<"{", "\"", "a", "\"", ":">>

\* '{broken}'
U_Braces ==
    <<"{", "b", "r", "o", "k", "e", "n", "}">>

\* '} nothing here {'
U_Reversed ==
    <<"}", " ", "n", "o", "t", "h", "i", "n", "g", " ", "h", "e", "r", "e", " ", "{">>

\* 'Error:'
S_ErrorColon ==
    <<"E", "r", "r", "o", "r", ":">>

----------------------------------------------------------------------------
(* Python values and the str operations the code uses.                     *)

Str(s) == [t |-> "str", v |-> s]
List(xs) == [t |-> "list", v |-> xs]
Dict(f) == [t |-> "dict", v |-> f]
Num(digits) == [t |-> "int", v |-> digits]
Bool(word) == [t |-> "bool", v |-> word]
None == [t |-> "none", v |-> <<>>]

\* Op applied to the value of v, which is worked out once.
Apply(Op(_), v) == CHOOSE r \in { Op(x) : x \in {v} } : TRUE

\* What an operation yields when it raises: the exception with its str(e).
Raise(desc) == [t |-> "raise", v |-> desc]
IsRaise(x) == x.t = "raise"

UpperToLower ==
    "A" :> "a" @@ "B" :> "b" @@ "C" :> "c" @@ "D" :> "d" @@ "E" :> "e" @@ "F" :> "f" @@
    "G" :> "g" @@ "H" :> "h" @@ "I" :> "i" @@ "J" :> "j" @@ "K" :> "k" @@ "L" :> "l" @@
    "M" :> "m" @@ "N" :> "n" @@ "O" :> "o" @@ "P" :> "p" @@ "Q" :> "q" @@ "R" :> "r" @@
    "S" :> "s" @@ "T" :> "t" @@ "U" :> "u" @@ "V" :> "v" @@ "W" :> "w" @@ "X" :> "x" @@
    "Y" :> "y" @@ "Z" :> "z"

\* str.lower()
Lower(s) ==
    [i \in 1..Len(s) |-> IF s[i] \in DOMAIN UpperToLower THEN UpperToLower[s[i]] ELSE s[i]]

\* `sub in s` on two str
Contains(sub, s) ==
    \E i \in 0..(Len(s) - Len(sub)) : \A k \in 1..Len(sub) : s[i + k] = sub[k]

\* Python truthiness of a value, and whether value[:500] is defined for it.
PyTruthy(x) ==
    CASE x.t = "str" -> x.v # <<>>
      [] x.t = "list" -> x.v # <<>>
      [] x.t = "dict" -> DOMAIN x.v # {}
      [] x.t = "int" -> \E i \in 1..Len(x.v) : x.v[i] # "0"
      [] x.t = "bool" -> x.v = S_true
      [] OTHER -> FALSE
Sliceable(x) == x.t \in {"str", "list"}

\* dict.get(key, default)
DictGet(d, key, default) ==
    IF key \in DOMAIN d.v THEN d.v[key] ELSE default

\* seq[:n]
Take(xs, n) ==
    SubSeq(xs, 1, IF Len(xs) < n THEN Len(xs) ELSE n)

----------------------------------------------------------------------------
(* json.loads and re.search(r'\{.*\}', text, re.DOTALL), on the characters *)
(* of a text.  A parse yields [ok, val, pos]: whether a value was read,    *)
(* the value, and the index after it.  String escapes, fractions and       *)
(* exponents are not modelled: no text drawn here contains them.           *)

Whitespace == {" ", "\n", "\t", "\r"}
Digits == {"0", "1", "2", "3", "4", "5", "6", "7", "8", "9"}

ParseFail == [ok |-> FALSE, val |-> None, pos |-> 0]
Parsed(val, pos) == [ok |-> TRUE, val |-> val, pos |-> pos]

\* The first index from i on that holds no whitespace (Len(s) + 1 at the end).
SkipWs(s, i) ==
    CHOOSE j \in i..(Len(s) + 1) :
        /\ j = Len(s) + 1 \/ s[j] \notin Whitespace
        /\ \A k \in i..(j - 1) : s[k] \in Whitespace

At(s, i, c) == i <= Len(s) /\ s[i] = c

StartsWithAt(s, i, word) ==
    i + Len(word) - 1 <= Len(s) /\ SubSeq(s, i, i + Len(word) - 1) = word

\* A string literal opening at s[i] = '"'.
ParseString(s, i) ==
    LET closes == { j \in (i + 1)..Len(s) : s[j] = "\"" }
    IN  IF closes = {} THEN ParseFail
        ELSE LET j == CHOOSE c \in closes : \A d \in closes : c <= d
             IN  Parsed(Str(SubSeq(s, i + 1, j - 1)), j + 1)

\* An integer literal opening at a digit s[i].
ParseNumber(s, i) ==
    LET j == CHOOSE e \in i..Len(s) :
                 /\ \A k \in i..e : s[k] \in Digits
                 /\ e = Len(s) \/ s[e + 1] \notin Digits
    IN  Parsed(Num(SubSeq(s, i, j)), j + 1)

RECURSIVE ParseValue(_, _), ParseElements(_, _, _), ParseMembers(_, _, _)

\* The value that starts at s[i] (whitespace already skipped).
ParseValue(s, i) ==
    IF i > Len(s) THEN ParseFail
    ELSE IF s[i] = "\"" THEN ParseString(s, i)
    ELSE IF s[i] \in Digits THEN ParseNumber(s, i)
    ELSE IF StartsWithAt(s, i, S_null) THEN Parsed(None, i + Len(S_null))
    ELSE IF StartsWithAt(s, i, S_true) THEN Parsed(Bool(S_true), i + Len(S_true))
    ELSE IF StartsWithAt(s, i, S_false) THEN Parsed(Bool(S_false), i + Len(S_false))
    ELSE IF s[i] = "["
         THEN LET Open(j) == IF At(s, j, "]") THEN Parsed(List(<<>>), j + 1)
                             ELSE ParseElements(s, j, <<>>)
              IN  Apply(Open, SkipWs(s, i + 1))
    ELSE IF s[i] = "{"
         THEN LET Open(j) == IF At(s, j, "}") THEN Parsed(Dict(<<>>), j + 1)
                             ELSE ParseMembers(s, j, <<>>)
              IN  Apply(Open, SkipWs(s, i + 1))
    ELSE ParseFail

\* The elements of an array from s[i] on, after those in acc.
ParseElements(s, i, acc) ==
    LET After(elem) ==
            IF ~elem.ok THEN ParseFail
            ELSE LET Then(k) ==
                         IF At(s, k, "]") THEN Parsed(List(Append(acc, elem.val)), k + 1)
                         ELSE IF At(s, k, ",")
                         THEN LET Next(n) == ParseElements(s, n, Append(acc, elem.val))
                              IN  Apply(Next, SkipWs(s, k + 1))
                         ELSE ParseFail
                 IN  Apply(Then, SkipWs(s, elem.pos))
    IN  Apply(After, ParseValue(s, i))

\* The members of an object from s[i] on, after those in acc (a repeated key
\* keeps its last value).
ParseMembers(s, i, acc) ==
    LET AfterValue(key, member) ==
            IF ~member.ok THEN ParseFail
            ELSE LET sofar == (key.val.v :> member.val) @@ acc
                     Then(k) ==
                         IF At(s, k, "}") THEN Parsed(Dict(sofar), k + 1)
                         ELSE IF At(s, k, ",")
                         THEN LET Next(n) == ParseMembers(s, n, sofar)
                              IN  Apply(Next, SkipWs(s, k + 1))
                         ELSE ParseFail
                 IN  Apply(Then, SkipWs(s, member.pos))
        AfterKey(key) ==
            IF ~key.ok THEN ParseFail
            ELSE LET Colon(c) ==
                         IF ~At(s, c, ":") THEN ParseFail
                         ELSE LET Value(member) == AfterValue(key, member)
                              IN  Apply(Value, ParseValue(s, SkipWs(s, c + 1)))
                 IN  Apply(Colon, SkipWs(s, key.pos))
    IN  IF ~At(s, i, "\"") THEN ParseFail
        ELSE Apply(AfterKey, ParseString(s, i))

\* json.loads(text): the value, or ParseFail for a JSONDecodeError (no value,
\* or extra data after it).
json_loads(text) ==
    LET Whole(first) ==
            IF first.ok /\ SkipWs(text, first.pos) = Len(text) + 1 THEN first ELSE ParseFail
    IN  Apply(Whole, ParseValue(text, SkipWs(text, 1)))

\* re.search(r'\{.*\}', text, re.DOTALL).group(): from the first "{" to the
\* last "}" after it; <<>> stands for no match (a match is never empty).
json_match(text) ==
    LET opens == { i \in 1..Len(text) : text[i] = "{" }
        closes == { j \in 1..Len(text) : text[j] = "}" }
    IN  IF opens = {} THEN <<>>
        ELSE LET i == CHOOSE o \in opens : \A p \in opens : o <= p
                 after == { j \in closes : j > i }
             IN  IF after = {} THEN <<>>
                 ELSE SubSeq(text, i, CHOOSE c \in after : \A d \in after : c >= d)

\* str.strip()
Strip(s) ==
    LET inner == { i \in 1..Len(s) : s[i] \notin Whitespace }
    IN  IF inner = {} THEN <<>>
        ELSE SubSeq(s, CHOOSE a \in inner : \A b \in inner : a <= b,
                       CHOOSE a \in inner : \A b \in inner : a >= b)

----------------------------------------------------------------------------
(* ollama_client.py: the Model Gateway.                                    *)
(*                                                                         *)
(* A message is [role, content, at]; `at` is a ghost stamp, the value of   *)
(* clock when the message was stored.  generate_response holds no await    *)
(* between its first and last statement (requests' post is a blocking      *)
(* call), so a call runs as one step.  What the POST does is the call's    *)
(* outcome [kind, text]:                                                   *)
(*   "ok"               a reply whose message.content is text              *)
(*   "timeout"          requests.exceptions.ReadTimeout                    *)
(*   "connect_timeout"  requests.exceptions.ConnectTimeout, a subclass of  *)
(*                      both Timeout and ConnectionError                   *)
(*   "connection"       requests.exceptions.ConnectionError                *)
(*   "other"            any other Exception (HTTPError of raise_for_status,*)
(*                      a body that is not JSON, ...), text is its str(e)  *)

Message(role, content, at) == [role |-> role, content |-> content, at |-> at]

IsTimeout(kind) == kind \in {"timeout", "connect_timeout"}
IsConnectionError(kind) == kind \in {"connection", "connect_timeout"}

TimeoutSentinel == S_ErrorPrefix \o <<"Request timed out. Try using a smaller model.">>
ConnectionSentinel == S_ErrorPrefix \o <<"Cannot connect to Ollama. Make sure it's running.">>

\* Python truthiness of an Optional[str] argument.
Truthy(x) == x.t = "str" /\ x.v # <<>>

\* get_or_create_conversation: the history map with the session present.
get_or_create_conversation(history, session_id) ==
    IF session_id \in DOMAIN history THEN history ELSE (session_id :> <<>>) @@ history

\* A clear that drops every session's history instead of the one named.
clear_every_conversation(history, session_id) ==
    [sid \in {} |-> <<>>]

\* clear_conversation: the history map without the session.
clear_conversation(history, session_id) ==
    [sid \in DOMAIN history \ {session_id} |-> history[sid]]

\* An insert that does not look at what leads the list.
with_system_unguarded(messages, system_prompt, at) ==
    IF Truthy(system_prompt)
    THEN <<Message("system", system_prompt.v, at)>> \o messages
    ELSE messages

\* Lines 79-80: the system message goes to position 0 when one is given and
\* none leads the list.
with_system(messages, system_prompt, at) ==
    IF Truthy(system_prompt) /\ (messages = <<>> \/ messages[1].role # "system")
    THEN <<Message("system", system_prompt.v, at)>> \o messages
    ELSE messages

\* Line 83: the user message is appended.
with_user(messages, prompt, at) ==
    Append(messages, Message("user", prompt, at))

\* The except clauses without the one for requests.exceptions.Timeout.
error_return_no_timeout_clause(outcome) ==
    IF IsConnectionError(outcome.kind) THEN ConnectionSentinel
    ELSE S_ErrorPrefix \o outcome.text

\* Lines 116-122: the except clauses, tried in their order.
error_return(outcome) ==
    IF IsTimeout(outcome.kind) THEN TimeoutSentinel
    ELSE IF IsConnectionError(outcome.kind) THEN ConnectionSentinel
    ELSE S_ErrorPrefix \o outcome.text

\* generate_response: [history, clock, sent, ret, raised] after the call; sent
\* is the payload posted, ret the str returned.
generate_response(history, clk, prompt, model, system_prompt, temperature, session_id, outcome) ==
    LET created == get_or_create_conversation(history, session_id)
        m0 == created[session_id]
        m1 == with_system(m0, system_prompt, clk + 1)
        c1 == clk + Len(m1) - Len(m0)
        m2 == with_user(m1, prompt, c1 + 1)
        payload == [model |-> IF PyTruthy(model) THEN model ELSE current_model,
                    messages |-> [i \in 1..Len(m2) |-> [role |-> m2[i].role, content |-> m2[i].content]],
                    temperature |-> temperature]
        assistant_response == Strip(outcome.text)
    IN  IF outcome.kind = "ok"
        THEN [history |-> [created EXCEPT ![session_id] =
                              Append(m2, Message("assistant", assistant_response, c1 + 2))],
              clock |-> c1 + 2, sent |-> payload, ret |-> assistant_response, raised |-> FALSE]
        ELSE [history |-> [created EXCEPT ![session_id] = m2],
              clock |-> c1 + 1, sent |-> payload, ret |-> error_return(outcome), raised |-> FALSE]

json_system ==
    <<"You are an AI assistant that responds only in valid JSON format. Do not include any text outside the JSON structure.">>

\* Lines 145-162: the value parsed from the reply, else from the braces found
\* in it, else the parse-failure dict.
extract_json(response_text) ==
    LET failure == Dict(K_error :> Str(<<"Failed to parse JSON response">>)
                        @@ K_raw_response :> Str(response_text))
        Inner(inner) == IF inner.ok THEN inner.val ELSE failure
        Found(found) == IF found = <<>> THEN failure ELSE Apply(Inner, json_loads(found))
        Whole(whole) == IF whole.ok THEN whole.val
                        ELSE Apply(Found, json_match(response_text))
    IN  Apply(Whole, json_loads(response_text))

\* generate_json_response: as generate_response, ret being the extracted value.
generate_json_response(history, clk, prompt, model, system_prompt, session_id, outcome) ==
    LET instruction == IF Truthy(system_prompt)
                       THEN json_system \o <<" ">> \o system_prompt.v
                       ELSE json_system
        Extract(r) == [r EXCEPT !.ret = extract_json(r.ret)]
    IN  Apply(Extract, generate_response(history, clk, prompt, model, Str(instruction),
                                         "0.3", session_id, outcome))

\* get_conversation_summary: the summary dict (the session is created by it).
conversation_summary(messages) ==
    LET users == { i \in 1..Len(messages) : messages[i].role = "user" }
        assistants == { i \in 1..Len(messages) : messages[i].role = "assistant" }
        Latest(S) == messages[CHOOSE i \in S : \A j \in S : i >= j].content
    IN  [message_count |-> Len(messages),
         has_system_prompt |-> Len(messages) > 0 /\ messages[1].role = "system",
         last_user_message |-> IF users = {} THEN None
                               ELSE Str(Take(Latest(users), 100) \o <<"...">>),
         last_assistant_message |-> IF assistants = {} THEN None
                                    ELSE Str(Take(Latest(assistants), 100) \o <<"...">>)]

----------------------------------------------------------------------------
(* menu_generator.py: the Dedup Filter.                                    *)

\* the limit of `filtered_items[:5]`
MenuLimit == 5
\* the `len(filtered_items) < 2` threshold
MinSurvivors == 2

duplicate_keywords ==
    << <<S_research, S_research>>, <<S_analyze, S_analyz>>, <<S_identify, S_identif>>,
       <<S_develop, S_develop>>, <<S_create, S_creat>>, <<S_design, S_design>> >>

\* A canonical action item with the given texts.
ActionItem(title, prompt, tool, alt, icon) ==
    Dict(K_title :> Str(title) @@ K_prompt :> Str(prompt) @@ K_tools :> List(<<Str(tool)>>)
         @@ K_alt :> Str(alt) @@ K_icon :> Str(icon))

progression_actions ==
    << ActionItem(T_NextPhase,
                  <<"Move to the next phase of this workflow based on completed work">>,
                  <<"planning">>, <<"Advance to the next stage">>, <<"icon-arrow">>),
       ActionItem(T_DeepDive,
                  <<"Explore the most promising aspect from previous work in greater detail">>,
                  <<"analysis">>, <<"Go deeper on key findings">>, <<"icon-magnifier">>),
       ActionItem(T_CreateDeliverable,
                  <<"Generate a concrete output based on the work completed so far">>,
                  <<"creation">>, <<"Produce tangible results">>, <<"icon-page">>) >>

\* The inner `for keyword1, keyword2 in duplicate_keywords` loop.
KeywordDuplicate(item_title, completed_lower) ==
    \E k \in 1..Len(duplicate_keywords) :
        /\ Contains(duplicate_keywords[k][1], item_title)
        /\ Contains(duplicate_keywords[k][2], completed_lower)

\* A title test that looks for the completed entry in the title only.
TitleDuplicateOneWay(item_title, completed_lower) ==
    \/ item_title = completed_lower
    \/ Contains(completed_lower, item_title)

\* The three-way title test of the `for completed in completed_actions` loop.
TitleDuplicate(item_title, completed_lower) ==
    \/ item_title = completed_lower
    \/ Contains(item_title, completed_lower)
    \/ Contains(completed_lower, item_title)

\* The loop over completed_actions from entry k on, with its breaks.
RECURSIVE is_duplicate(_, _, _)
is_duplicate(item_title, completed_actions, k) ==
    IF k > Len(completed_actions) THEN FALSE
    ELSE LET Compare(completed_lower) ==
                 IF TitleDuplicate(item_title, completed_lower) THEN TRUE
                 ELSE IF KeywordDuplicate(item_title, completed_lower) THEN TRUE
                 ELSE is_duplicate(item_title, completed_actions, k + 1)
         IN  Apply(Compare, Lower(completed_actions[k]))

\* item.get("title", "").lower(): the title must be a str for lower() to exist.
TitleIsStr(item) == DictGet(item, K_title, Str(<<>>)).t = "str"
item_title_of(item) == Lower(DictGet(item, K_title, Str(<<>>)).v)

\* The `for item in menu_items` loop: the items appended to filtered_items.
RECURSIVE filtered_items(_, _)
filtered_items(menu_items, completed_actions) ==
    IF menu_items = <<>> THEN <<>>
    ELSE LET item == Head(menu_items)
             rest == filtered_items(Tail(menu_items), completed_actions)
             Duplicate(item_title) == is_duplicate(item_title, completed_actions, 1)
         IN  IF Apply(Duplicate, item_title_of(item)) THEN rest ELSE <<item>> \o rest

\* _get_progression_actions
get_progression_actions(completed_actions) ==
    SelectSeq(progression_actions,
              LAMBDA action :
                  ~ \E k \in 1..Len(completed_actions) :
                        Contains(Lower(action.v[K_title].v), Lower(completed_actions[k])))

\* _filter_completed_actions: the list returned, or Raise when an item's title
\* is not a str and so has no lower().
filter_completed_actions(menu_items, completed_actions) ==
    IF completed_actions = <<>> THEN List(menu_items)
    ELSE IF \E i \in 1..Len(menu_items) : ~TitleIsStr(menu_items[i])
    THEN Raise(<<"AttributeError">>)
    ELSE LET Extended(survivors) ==
                 IF Len(survivors) < MinSurvivors
                 THEN survivors \o get_progression_actions(completed_actions)
                 ELSE survivors
         IN  List(Take(Apply(Extended, filtered_items(menu_items, completed_actions)),
                       MenuLimit))

----------------------------------------------------------------------------
(* menu_generator.py: validation, fallback and the two public operations.  *)

\* A validator that keeps every dict, with or without a title.
validate_any_dict(items) ==
    LET Clean(item) ==
            Dict(K_title :> DictGet(item, K_title, Str(<<"Unknown Action">>))
                 @@ K_prompt :> DictGet(item, K_prompt, Str(<<"Execute this action">>))
                 @@ K_tools :> DictGet(item, K_tools, List(<<>>))
                 @@ K_alt :> DictGet(item, K_alt, DictGet(item, K_title, Str(<<"Action">>)))
                 @@ K_icon :> DictGet(item, K_icon, Str(<<"icon-clipboard">>)))
        kept == SelectSeq(items, LAMBDA item : item.t = "dict")
    IN  [i \in 1..Len(kept) |-> Clean(kept[i])]

\* _validate_menu_items
validate_menu_items(items) ==
    LET Valid(item) == item.t = "dict" /\ K_title \in DOMAIN item.v
        Clean(item) ==
            Dict(K_title :> DictGet(item, K_title, Str(<<"Unknown Action">>))
                 @@ K_prompt :> DictGet(item, K_prompt, Str(<<"Execute this action">>))
                 @@ K_tools :> DictGet(item, K_tools, List(<<>>))
                 @@ K_alt :> DictGet(item, K_alt, DictGet(item, K_title, Str(<<"Action">>)))
                 @@ K_icon :> DictGet(item, K_icon, Str(<<"icon-clipboard">>)))
        kept == SelectSeq(items, Valid)
    IN  [i \in 1..Len(kept) |-> Clean(kept[i])]

\* The base_actions of _generate_fallback_menu.
base_actions(role, context) ==
    << ActionItem(T_AnalyzeCurrentState,
                  <<"Analyze the current situation for a ">> \o role \o <<": ">> \o context,
                  <<"analysis">>, <<"Evaluate the present situation">>, <<"icon-magnifier">>),
       ActionItem(T_StrategicPlanning,
                  <<"Create a strategic plan for a ">> \o role \o <<" dealing with: ">> \o context,
                  <<"planning">>, <<"Develop strategic approach">>, <<"icon-clipboard">>),
       ActionItem(T_ResearchOptions,
                  <<"Research available options for a ">> \o role \o <<" in this context: ">> \o context,
                  <<"research">>, <<"Investigate possibilities">>, <<"icon-books">>),
       ActionItem(T_CreateDeliverable,
                  <<"Generate a concrete deliverable for a ">> \o role \o <<" on: ">> \o context,
                  <<"creation">>, <<"Produce tangible output">>, <<"icon-page">>),
       ActionItem(T_NextSteps,
                  <<"Determine next steps for a ">> \o role \o <<" regarding: ">> \o context,
                  <<"planning">>, <<"Identify immediate actions">>, <<"icon-arrow">>) >>

\* _generate_fallback_menu
generate_fallback_menu(role, context, completed_actions) ==
    filter_completed_actions(base_actions(role, context), completed_actions)

\* ', '.join(xs)
RECURSIVE Join(_)
Join(xs) ==
    IF xs = <<>> THEN <<>>
    ELSE IF Len(xs) = 1 THEN xs[1]
    ELSE xs[1] \o <<",", " ">> \o Join(Tail(xs))

\* An argument that defaults to None and is replaced by [] (lines 36-39).
OrEmpty(arg) == IF arg.t = "none" THEN <<>> ELSE arg.v

menu_system_prompt(role) ==
    <<"You are MenuBot, a workflow assistant specializing in ">> \o role
        \o <<" tasks. [...] Return ONLY a JSON array [...]">>

\* Lines 75-93: the prompt quotes the node when its content is over 50 long.
menu_user_prompt(role, context, current_node_content, node_title, completed_actions) ==
    IF Len(current_node_content) > 50
    THEN <<"Current Node: ">> \o node_title \o <<"Current Node Content: ">>
             \o Take(current_node_content, 1000) \o <<"Role: ">> \o role
             \o <<"Overall Context: ">> \o context
             \o <<"Already Completed Actions (DO NOT repeat these): ">>
             \o Join(completed_actions) \o <<"Based on the SPECIFIC CONTENT [...]">>
    ELSE <<"Role: ">> \o role \o <<"Context: ">> \o context
             \o <<"Current Situation: ">> \o node_title
             \o <<"Already Completed Actions (DO NOT repeat these): ">>
             \o Join(completed_actions) \o <<"Generate 3-5 logical next actions [...]">>

\* `"error" in response` (line 104): "yes", "no", or "raise" where the value
\* supports no `in`.
error_in(response) ==
    LET Answer(b) == IF b THEN "yes" ELSE "no"
    IN  IF response.t = "dict" THEN Answer(K_error \in DOMAIN response.v)
        ELSE IF response.t = "list"
             THEN Answer(\E i \in 1..Len(response.v) : response.v[i] = Str(K_error))
        ELSE IF response.t = "str" THEN Answer(Contains(K_error, response.v))
        ELSE "raise"

\* Lines 95-118: what generate_menu returns for the parsed response.
menu_from_response(response, role, context, completed_actions) ==
    LET fallback == [ret |-> generate_fallback_menu(role, context, completed_actions),
                     path |-> "fallback"]
        Filtered(filtered_menu) ==
            IF IsRaise(filtered_menu) THEN fallback
            ELSE [ret |-> filtered_menu, path |-> "filtered"]
        Checked(hit) ==
            IF hit = "raise" THEN fallback
            ELSE IF hit = "yes" THEN fallback
            ELSE IF response.t = "list"
                 THEN Apply(Filtered,
                            filter_completed_actions(validate_menu_items(response.v),
                                                     completed_actions))
            ELSE fallback
    IN  Apply(Checked, error_in(response))

\* generate_menu: [history, clock, calls, ret, path]; calls lists the gateway
\* calls made, each with the payload sent and its outcome.
generate_menu(history, clk, role, context, current_node_content, node_title, completed_actions, previous_actions, outcome) ==
    LET completed == OrEmpty(completed_actions)
        Returned(r, menu) ==
            [history |-> r.history, clock |-> r.clock,
             calls |-> <<[sent |-> r.sent, outcome |-> outcome]>>,
             ret |-> menu.ret, path |-> menu.path]
        Handled(r) ==
            LET Menu(menu) == Returned(r, menu)
            IN  Apply(Menu, IF r.raised
                            THEN [ret |-> generate_fallback_menu(role, context, completed),
                                  path |-> "fallback"]
                            ELSE menu_from_response(r.ret, role, context, completed))
    IN  Apply(Handled,
              generate_json_response(
                  history, clk,
                  menu_user_prompt(role, context, current_node_content, node_title, completed),
                  current_model, Str(menu_system_prompt(role)), "default", outcome))

default_next_actions ==
    List(<<Str(T_ReviewResults), Str(T_ContinuePlanning), Str(T_NextPhase)>>)

next_actions_system_prompt ==
    <<"Generate 3 logical next action titles based on the previous result. [...]">>

\* _generate_next_actions: [history, clock, sent, ret].
generate_next_actions(history, clk, role, previous_result, outcome) ==
    LET Limited(r) ==
            [r EXCEPT !.ret = IF r.raised THEN default_next_actions
                              ELSE IF r.ret.t = "list" THEN List(Take(r.ret.v, 3))
                              ELSE default_next_actions]
    IN  Apply(Limited,
              generate_json_response(
                  history, clk,
                  <<"Role: ">> \o role \o <<"Previous result: ">> \o Take(previous_result, 500)
                      \o <<"...">> \o <<"What are 3 logical next actions that build on these results?">>,
                  current_model, Str(next_actions_system_prompt), "default", outcome))

\* What an f-string shows of a value.
Shown(x) == IF x.t = "str" THEN x.v ELSE <<"<", x.t, ">">>

exec_system_prompt(role, parent_content) ==
    <<"You are an AI assistant specializing in ">> \o Shown(role)
        \o <<" tasks in the UK market. [...] Previous Context: ">>
        \o (IF PyTruthy(parent_content)
            THEN (IF parent_content.t = "str" THEN Take(parent_content.v, 500)
                  ELSE <<"<list>">>)
            ELSE <<"No previous context">>)
        \o <<" Provide: [...]">>

exec_user_prompt(action_prompt, previous_context, user_input) ==
    <<"Action to execute: ">> \o Shown(action_prompt) \o <<"Overall Context: ">>
        \o Shown(previous_context) \o <<"User input: ">> \o Shown(user_input)
        \o <<"Please execute this action and provide comprehensive results [...]">>

\* execute_action: [history, clock, calls, ret]; ret is the result dict, or
\* Raise when a statement before the try block raises (lines 206-234).
\* first and second are the outcomes of the two gateway calls.
execute_action(history, clk, action_id, context, user_input, first, second) ==
    IF context.t # "dict"
    THEN [history |-> history, clock |-> clk, calls |-> <<>>,
          ret |-> Raise(<<"AttributeError: no attribute 'get'">>)]
    ELSE LET action_prompt == DictGet(context, K_action_prompt, Str(<<>>))
             role == DictGet(context, K_role, Str(<<"General User">>))
             previous_context == DictGet(context, K_context, Str(<<>>))
             parent_content == DictGet(context, K_parent_content, Str(<<>>))
         IN  IF PyTruthy(parent_content) /\ ~Sliceable(parent_content)
             THEN [history |-> history, clock |-> clk, calls |-> <<>>,
                   ret |-> Raise(<<"TypeError: not subscriptable">>)]
             ELSE LET Succeeded(r, n) ==
                          [history |-> n.history, clock |-> n.clock,
                           calls |-> <<[sent |-> r.sent, outcome |-> first],
                                       [sent |-> n.sent, outcome |-> second]>>,
                           ret |-> Dict(K_content :> Str(r.ret)
                                        @@ K_next_actions :> n.ret
                                        @@ K_executed_at :> Str(<<"now">>)
                                        @@ K_model_used :> current_model)]
                      Generated(r) ==
                          IF r.raised
                          THEN [history |-> r.history, clock |-> r.clock,
                                calls |-> <<[sent |-> r.sent, outcome |-> first]>>,
                                ret |-> Dict(K_content :> Str(<<"Error executing action: ">> \o r.ret)
                                             @@ K_next_actions :> List(<<>>)
                                             @@ K_executed_at :> Str(<<"now">>)
                                             @@ K_model_used :> Str(<<"error">>))]
                          ELSE LET Next(n) == Succeeded(r, n)
                               IN  Apply(Next, generate_next_actions(r.history, r.clock,
                                                                     Shown(role), r.ret, second))
                  IN  Apply(Generated,
                            generate_response(
                                history, clk,
                                exec_user_prompt(action_prompt, previous_context, user_input),
                                current_model, Str(exec_system_prompt(role, parent_content)),
                                "0.7", "default", first))

----------------------------------------------------------------------------
(* Inputs drawn for the Dedup Filter.                                      *)

\* An item as the validator leaves it when the model gave only a title.
TitledItem(title) ==
    Dict(K_title :> Str(title) @@ K_prompt :> Str(<<"Execute this action">>)
         @@ K_tools :> List(<<>>) @@ K_alt :> Str(title) @@ K_icon :> Str(<<"icon-clipboard">>))

CandidatePool ==
    << TitledItem(T_ResearchOptions), TitledItem(T_CreateReport),
       TitledItem(T_AnalyzeCompetitors), TitledItem(T_Plan) >>

CompletedPool ==
    { T_ResearchOptions, T_AnalyzedMarketTrends, T_StrategicPlanning, T_Report,
      T_NextPhase, T_DeepDive }

SeqsUpTo(S, n) == UNION { [1..k -> S] : k \in 0..n }

\* One list longer than the menu limit, cycling through the pool.
LongList ==
    [i \in 1..(MenuLimit + 1) |-> CandidatePool[((i - 1) % Len(CandidatePool)) + 1]]

CandidateLists ==
    SeqsUpTo({ CandidatePool[i] : i \in 1..Len(CandidatePool) }, MaxItems) \cup { LongList }

CompletedLists == SeqsUpTo(CompletedPool, MaxCompleted)

----------------------------------------------------------------------------
(* Inputs drawn for the gateway and the orchestrator.                      *)

SessionIds == {"default", "A"}

Replies == {R_Menu, R_Titles, R_ProseObject, R_Prose, R_BlankTitle, R_ErrorList}

Failures ==
    { [kind |-> "timeout", text |-> <<>>],
      [kind |-> "connect_timeout", text |-> <<>>],
      [kind |-> "connection", text |-> <<>>],
      [kind |-> "other", text |-> <<"500 Server Error: Internal Server Error">>] }

Outcomes == { [kind |-> "ok", text |-> r] : r \in Replies } \cup Failures

\* The outcomes drawn for a call made on the gateway itself.
GatewayOutcomes ==
    { [kind |-> "ok", text |-> R_ProseObject], [kind |-> "ok", text |-> R_Prose] }
        \cup Failures

\* The outcomes drawn for the second gateway call of execute_action.
SecondOutcomes ==
    { [kind |-> "ok", text |-> R_Titles], [kind |-> "ok", text |-> R_Prose],
      [kind |-> "connection", text |-> <<>>] }

SystemPrompts == { None, Str(<<"You are a helpful assistant.">>) }

\* The log of a run that took every fallback and progression action in turn.
WorkflowLog ==
    << T_AnalyzeCurrentState, T_StrategicPlanning, T_ResearchOptions, T_CreateDeliverable,
       T_NextSteps, T_NextPhase, T_DeepDive >>

MenuCompletedLists ==
    { SubSeq(WorkflowLog, 1, n) : n \in 0..Len(WorkflowLog) }
        \cup { <<T_ResearchOptions>>, <<T_AnalyzedMarketTrends>> }

\* The `context` of an execute-action request.
Contexts ==
    { Dict(<<>>),
      Dict(K_action_prompt :> Str(<<"Research available options">>)
           @@ K_role :> Str(<<"Analyst">>) @@ K_context :> Str(<<"Q3 launch">>)
           @@ K_parent_content :> Str(<<"Earlier findings">>)),
      Dict(K_parent_content :> Num(<<"5">>)),
      None }

\* Whether execute_action gets as far as its gateway calls with this context.
ReachesGateway(context) ==
    /\ context.t = "dict"
    /\ LET parent_content == DictGet(context, K_parent_content, Str(<<>>))
       IN  ~PyTruthy(parent_content) \/ Sliceable(parent_content)

\* No gateway call is made, so no outcome is drawn.
NoCall == [kind |-> "none", text |-> <<>>]

FirstOutcomesFor(context) == IF ReachesGateway(context) THEN Outcomes ELSE {NoCall}
SecondOutcomesFor(context) == IF ReachesGateway(context) THEN SecondOutcomes ELSE {NoCall}

ActionIds == { None, Str(<<"action-1">>) }

ModelNames == { None, Str(<<"qwen3:30b">>) }

DefaultRole == <<"General User">>

----------------------------------------------------------------------------
(* State machine.                                                          *)

InitGateway ==
    /\ conversation_history = << >>
    /\ current_model = Str(<<"danielsheep/Qwen3-Coder-30B-A3B-Instruct-1M-Unsloth">>)
    /\ nodes = 0
    /\ clock = 0

Idle == [op |-> "idle", args |-> <<>>, ret |-> None, calls |-> <<>>, raised |-> FALSE]

Init ==
    /\ InitGateway
    /\ last = Idle

\* OllamaClient.generate_response called on a session.
GenerateResponse ==
    /\ clock < MaxMessages
    /\ \E sid \in SessionIds, sp \in SystemPrompts, out \in GatewayOutcomes :
       \E r \in { generate_response(conversation_history, clock, <<"Hello">>, None, sp,
                                   "0.7", sid, out) } :
            /\ conversation_history' = r.history
            /\ clock' = r.clock
            /\ last' = [op |-> "generate_response",
                        args |-> [session_id |-> sid, system_prompt |-> sp, outcome |-> out],
                        ret |-> Str(r.ret), calls |-> <<[sent |-> r.sent, outcome |-> out]>>,
                        raised |-> r.raised]
            /\ UNCHANGED <<current_model, nodes>>

\* OllamaClient.generate_json_response called on a session.
GenerateJsonResponse ==
    /\ clock < MaxMessages
    /\ \E sid \in SessionIds, sp \in SystemPrompts, out \in GatewayOutcomes :
       \E r \in { generate_json_response(conversation_history, clock, <<"List the steps">>,
                                        None, sp, sid, out) } :
            /\ conversation_history' = r.history
            /\ clock' = r.clock
            /\ last' = [op |-> "generate_json_response",
                        args |-> [session_id |-> sid, system_prompt |-> sp, outcome |-> out],
                        ret |-> r.ret, calls |-> <<[sent |-> r.sent, outcome |-> out]>>,
                        raised |-> r.raised]
            /\ UNCHANGED <<current_model, nodes>>

\* OllamaClient.clear_conversation
ClearConversation ==
    \E sid \in SessionIds :
        /\ conversation_history' = clear_conversation(conversation_history, sid)
        /\ last' = [op |-> "clear_conversation", args |-> [session_id |-> sid],
                    ret |-> None, calls |-> <<>>, raised |-> FALSE]
        /\ UNCHANGED <<current_model, nodes, clock>>

\* OllamaClient.get_conversation_summary
GetConversationSummary ==
    \E sid \in SessionIds :
        LET created == get_or_create_conversation(conversation_history, sid)
        IN  /\ conversation_history' = created
            /\ last' = [op |-> "get_conversation_summary", args |-> [session_id |-> sid],
                        ret |-> conversation_summary(created[sid]), calls |-> <<>>,
                        raised |-> FALSE]
            /\ UNCHANGED <<current_model, nodes, clock>>

NextGateway ==
    \/ GenerateResponse
    \/ GenerateJsonResponse
    \/ ClearConversation
    \/ GetConversationSummary

SpecGateway == Init /\ [][NextGateway]_vars

\* MenuGenerator.generate_menu called with a completed-actions list.
GenerateMenu ==
    /\ clock < MaxBacklog
    /\ \E completed \in MenuCompletedLists, out \in Outcomes :
       \E r \in { generate_menu(conversation_history, clock, DefaultRole, <<"Q3 launch">>,
                               <<>>, <<"Start">>, List(completed), None, out) } :
            /\ conversation_history' = r.history
            /\ clock' = r.clock
            /\ last' = [op |-> "generate_menu",
                        args |-> [completed_actions |-> completed, outcome |-> out],
                        ret |-> r.ret, calls |-> r.calls, raised |-> IsRaise(r.ret),
                        path |-> r.path]
            /\ UNCHANGED <<current_model, nodes>>

\* main.py generate_menu: POST /api/generate-menu.
RouteGenerateMenu ==
    /\ clock < MaxBacklog
    /\ \E previous_actions \in MenuCompletedLists, out \in Outcomes :
       \E r \in { generate_menu(conversation_history, clock, DefaultRole, <<"Q3 launch">>,
                               <<>>, <<>>, None, List(previous_actions), out) } :
            /\ conversation_history' = r.history
            /\ clock' = r.clock
            /\ last' = [op |-> "route_generate_menu",
                        args |-> [previous_actions |-> previous_actions, outcome |-> out],
                        ret |-> IF IsRaise(r.ret)
                                THEN [status |-> 500, body |-> None]
                                ELSE [status |-> 200, body |-> Dict(K_menu_items :> r.ret)],
                        calls |-> r.calls, raised |-> FALSE]
            /\ UNCHANGED <<current_model, nodes>>

\* MenuGenerator.execute_action
ExecuteAction ==
    /\ clock < MaxBacklog
    /\ \E context \in Contexts :
       \E first \in FirstOutcomesFor(context), second \in SecondOutcomesFor(context) :
       \E r \in { execute_action(conversation_history, clock, Str(<<"action-1">>), context,
                                Str(<<"go">>), first, second) } :
            /\ conversation_history' = r.history
            /\ clock' = r.clock
            /\ last' = [op |-> "execute_action",
                        args |-> [context |-> context, first |-> first, second |-> second],
                        ret |-> r.ret, calls |-> r.calls, raised |-> IsRaise(r.ret)]
            /\ UNCHANGED <<current_model, nodes>>

\* main.py execute_action: POST /api/execute-action.  A request without
\* "context" gets {}; the result is stored as a node and then answered.
RouteExecuteAction ==
    /\ clock < MaxBacklog
    /\ \E action_id \in ActionIds, context \in Contexts :
       \E first \in FirstOutcomesFor(context), second \in SecondOutcomesFor(context) :
       \E r \in { execute_action(conversation_history, clock, action_id, context,
                                Str(<<>>), first, second) } :
            /\ conversation_history' = r.history
            /\ clock' = r.clock
            /\ nodes' = IF IsRaise(r.ret) THEN nodes ELSE nodes + 1
            /\ last' = [op |-> "route_execute_action",
                        args |-> [action_id |-> action_id, context |-> context,
                                  first |-> first, second |-> second],
                        ret |-> IF IsRaise(r.ret)
                                THEN [status |-> 500, body |-> None]
                                ELSE [status |-> 200,
                                      body |-> Dict(K_result :> r.ret.v[K_content]
                                                    @@ K_new_node_id :> Str(<<"uuid4">>)
                                                    @@ K_suggested_next_actions
                                                           :> r.ret.v[K_next_actions])],
                        calls |-> r.calls, raised |-> FALSE]
            /\ UNCHANGED current_model

\* main.py set_model: POST /api/set-model.  The HTTPException(400) raised
\* inside the try block is caught by its `except Exception` and answered 500.
RouteSetModel ==
    \E model_name \in ModelNames :
        /\ current_model' = IF PyTruthy(model_name) THEN model_name ELSE current_model
        /\ last' = [op |-> "route_set_model", args |-> [model_name |-> model_name],
                    ret |-> IF PyTruthy(model_name)
                            THEN [status |-> 200, body |-> None]
                            ELSE [status |-> 500, body |-> None],
                    calls |-> <<>>, raised |-> FALSE]
        /\ UNCHANGED <<conversation_history, nodes, clock>>

NextMenu ==
    \/ GenerateMenu
    \/ RouteGenerateMenu
    \/ ExecuteAction
    \/ RouteExecuteAction
    \/ RouteSetModel

SpecMenu == Init /\ [][NextMenu]_vars

InitFilter ==
    /\ InitGateway
    /\ last \in { [op |-> "call_filter",
                   args |-> [menu_items |-> m, completed_actions |-> c],
                   ret |-> None, calls |-> <<>>, raised |-> FALSE] :
                  m \in CandidateLists, c \in CompletedLists }

\* MenuGenerator._filter_completed_actions applied to the drawn arguments.
Filter ==
    /\ last.op = "call_filter"
    /\ last' = [last EXCEPT !.op = "filter",
                            !.ret = filter_completed_actions(last.args.menu_items,
                                                             last.args.completed_actions)]
    /\ UNCHANGED <<conversation_history, current_model, nodes, clock>>

NextFilter == Filter

SpecFilter == InitFilter /\ [][NextFilter]_vars

----------------------------------------------------------------------------
(* Inputs drawn for the JSON extraction of generate_json_response.         *)

\* Brace-free prose put before and after a JSON value (<<>> is none).
ProseBefore == { <<>>, P_HereYouGo, P_Sure }
ProseAfter == { <<>>, P_Thanks, P_Done }

\* JSON values: objects, and arrays of objects.
JsonObjects == { J_Object, J_Item, J_Nested, J_EmptyObject }
JsonArrays == { J_OneItemArray, J_Menu }

\* Texts from which no JSON value can be parsed.
UnparseableTexts == { R_Prose, TimeoutSentinel, U_Truncated, U_Braces, U_Reversed }

ExtractInputs ==
    { [kind |-> "wrapped", before |-> b, json |-> j, after |-> a, response_text |-> b \o j \o a] :
          b \in ProseBefore, j \in JsonObjects \cup JsonArrays, a \in ProseAfter }
    \cup
    { [kind |-> "unparseable", before |-> <<>>, json |-> <<>>, after |-> <<>>, response_text |-> u] :
          u \in UnparseableTexts }

InitExtract ==
    /\ InitGateway
    /\ last \in { [op |-> "call_extract_json", args |-> x, ret |-> None, calls |-> <<>>,
                   raised |-> FALSE] : x \in ExtractInputs }

\* Lines 145-162 of generate_json_response applied to the drawn text.
ExtractJson ==
    /\ last.op = "call_extract_json"
    /\ last' = [last EXCEPT !.op = "extract_json",
                            !.ret = extract_json(last.args.response_text)]
    /\ UNCHANGED <<conversation_history, current_model, nodes, clock>>

NextExtract == ExtractJson

SpecExtract == InitExtract /\ [][NextExtract]_vars

----------------------------------------------------------------------------
(* Inputs drawn for _validate_menu_items.                                  *)

\* What a parsed model response may hold: a canonical item, items with some
\* keys missing, with a key the validator does not know, with a null title,
\* with no title, and values that are no dict.
RawPool ==
    { ActionItem(T_Plan, <<"Draft the plan">>, <<"planning">>, <<"Plan it">>, <<"icon-page">>),
      Dict(K_title :> Str(T_ResearchOptions)),
      Dict(K_title :> Str(T_CreateReport) @@ K_prompt :> Str(<<"Draft it">>)
           @@ K_context :> Str(<<"ignored">>)),
      Dict(K_title :> None),
      Dict(K_prompt :> Str(<<"No title here">>)),
      Str(T_Plan),
      None }

RawLists == SeqsUpTo(RawPool, MaxRaw)

InitValidate ==
    /\ InitGateway
    /\ last \in { [op |-> "call_validate", args |-> [items |-> x, first |-> None],
                   ret |-> None, calls |-> <<>>, raised |-> FALSE] : x \in RawLists }

\* _validate_menu_items applied to the drawn list.
Validate ==
    /\ last.op = "call_validate"
    /\ last' = [last EXCEPT !.op = "validate",
                            !.ret = List(validate_menu_items(last.args.items))]
    /\ UNCHANGED <<conversation_history, current_model, nodes, clock>>

\* _validate_menu_items applied to its own result.
ValidateAgain ==
    /\ last.op = "validate"
    /\ last' = [last EXCEPT !.op = "validate_again",
                            !.args = [items |-> last.args.items, first |-> last.ret],
                            !.ret = List(validate_menu_items(last.ret.v))]
    /\ UNCHANGED <<conversation_history, current_model, nodes, clock>>

NextValidate ==
    \/ Validate
    \/ ValidateAgain

SpecValidate == InitValidate /\ [][NextValidate]_vars

----------------------------------------------------------------------------
(* Inputs drawn for _generate_fallback_menu.                               *)

\* The entries of WorkflowLog whose position is in S, in the log's order.
RECURSIVE SubLog(_, _)
SubLog(i, S) ==
    IF i > Len(WorkflowLog) THEN <<>>
    ELSE (IF i \in S THEN <<WorkflowLog[i]>> ELSE <<>>) \o SubLog(i + 1, S)

\* Every completed-actions list that is part of the workflow log.
FallbackCompletedLists == { SubLog(1, S) : S \in SUBSET (1..Len(WorkflowLog)) }

InitFallback ==
    /\ InitGateway
    /\ last \in { [op |-> "call_fallback", args |-> [completed_actions |-> c],
                   ret |-> None, calls |-> <<>>, raised |-> FALSE] :
                  c \in FallbackCompletedLists }

\* MenuGenerator._generate_fallback_menu applied to the drawn list.
Fallback ==
    /\ last.op = "call_fallback"
    /\ last' = [last EXCEPT !.op = "fallback",
                            !.ret = generate_fallback_menu(DefaultRole, <<"Q3 launch">>,
                                                           last.args.completed_actions)]
    /\ UNCHANGED <<conversation_history, current_model, nodes, clock>>

NextFallback == Fallback

SpecFallback == InitFallback /\ [][NextFallback]_vars

----------------------------------------------------------------------------
(* Requests served concurrently.  uvicorn runs the routes as coroutines on *)
(* one event loop (main.py:195).  A request is a task; its pc is the       *)
(* statement it stands at:                                                 *)
(*   "idle"         not yet received                                       *)
(*   "body"         at `data = await request.json()` (main.py:107, 131)    *)
(*   "append_user"  at lines 76-83 of generate_response                    *)
(*   "post"         at self.session.post(...), lines 99-103: the request   *)
(*                  goes out with the session's message list               *)
(*   "receive"      inside that post, waiting for the HTTP response; then  *)
(*                  lines 104-110 or an except clause                      *)
(*   "done"         the route has answered                                 *)
(* A task that stands at a statement which suspends gives the loop up;     *)
(* any other task may then run.  A task that holds the loop runs on until  *)
(* it reaches such a statement or ends.  Under SpecLoop `last` holds the   *)
(* loop: the tasks and the task running.  MenuGenerator passes no          *)
(* session_id, so every call is on session "default".                      *)

Tasks == {"r1", "r2"}

Routes == {"generate_menu", "execute_action"}

\* A loop in which the POST is awaited, as with an asynchronous HTTP client.
SuspendsWithAwaitedPost(pc) == pc \in {"body", "receive"}

\* Whether a task standing at pc has given the event loop up.  Only
\* request.json() is awaited on something that suspends; requests' post
\* blocks the thread, and the coroutines awaited in between hold no await of
\* their own that suspends.
Suspends(pc) == pc = "body"

\* The gateway calls a route makes (lines 97, 237 and 276 of
\* menu_generator.py).
CallsOf(route) == IF route = "generate_menu" THEN 1 ELSE 2

\* The system prompt and the prompt of the n-th gateway call of a route.
LoopSystemPrompt(route, n) ==
    IF route = "generate_menu"
    THEN Str(json_system \o <<" ">> \o menu_system_prompt(DefaultRole))
    ELSE IF n = 1 THEN Str(exec_system_prompt(Str(DefaultRole), Str(<<>>)))
    ELSE Str(json_system \o <<" ">> \o next_actions_system_prompt)

LoopPrompt(route, n) ==
    IF route = "generate_menu"
    THEN menu_user_prompt(DefaultRole, <<"Q3 launch">>, <<>>, <<>>, <<>>)
    ELSE IF n = 1 THEN exec_user_prompt(Str(<<>>), Str(<<>>), Str(<<>>))
    ELSE <<"What are 3 logical next actions that build on these results?">>

\* Lines 86-94: the messages of the payload are the session's list itself.
payload_messages(messages) ==
    [i \in 1..Len(messages) |-> [role |-> messages[i].role, content |-> messages[i].content]]

LoopOutcomes == { [kind |-> "ok", text |-> R_Titles], [kind |-> "timeout", text |-> <<>>] }

\* A gateway call of a task: the stamps of the messages it stored (0 is
\* none), what it sent, and how it ended ("" while it has not).
NewCall == [user_at |-> 0, reply_at |-> 0, sent |-> <<>>, ended |-> ""]

InitLoop ==
    /\ InitGateway
    /\ last = [op |-> "event_loop", running |-> "none",
               tasks |-> [t \in Tasks |-> [route |-> "none", pc |-> "idle", calls |-> <<>>]],
               args |-> <<>>, ret |-> None, calls |-> <<>>, raised |-> FALSE]

\* A task may take a step when it holds the loop or nobody does.
Runnable(t) == last.running \in {"none", t}

\* The loop after task t has moved to the state `task`.
LoopAfter(t, task) ==
    [last EXCEPT !.tasks[t] = task,
                 !.running = IF task.pc = "done" \/ Suspends(task.pc) THEN "none" ELSE t]

\* A request is received and its route starts: it runs up to request.json().
Arrive ==
    \E t \in Tasks, route \in Routes :
        /\ last.tasks[t].pc = "idle"
        /\ Runnable(t)
        /\ last' = LoopAfter(t, [route |-> route, pc |-> "body", calls |-> <<>>])
        /\ UNCHANGED <<conversation_history, current_model, nodes, clock>>

\* The body has been read; the route goes on to its first gateway call.
ReadBody ==
    \E t \in Tasks :
        /\ last.tasks[t].pc = "body"
        /\ Runnable(t)
        /\ last' = LoopAfter(t, [last.tasks[t] EXCEPT !.pc = "append_user",
                                                      !.calls = <<NewCall>>])
        /\ UNCHANGED <<conversation_history, current_model, nodes, clock>>

\* Lines 76-83 of generate_response.
AppendUser ==
    \E t \in Tasks :
        LET task == last.tasks[t]
            n == Len(task.calls)
            created == get_or_create_conversation(conversation_history, "default")
            m0 == created["default"]
            m1 == with_system(m0, LoopSystemPrompt(task.route, n), clock + 1)
            c1 == clock + Len(m1) - Len(m0)
            m2 == with_user(m1, LoopPrompt(task.route, n), c1 + 1)
        IN  /\ task.pc = "append_user"
            /\ Runnable(t)
            /\ conversation_history' = [created EXCEPT !["default"] = m2]
            /\ clock' = c1 + 1
            /\ last' = LoopAfter(t, [task EXCEPT !.pc = "post", !.calls[n].user_at = c1 + 1])
            /\ UNCHANGED <<current_model, nodes>>

\* Lines 86-103: the payload is built and posted.
Post ==
    \E t \in Tasks :
        LET task == last.tasks[t]
            n == Len(task.calls)
        IN  /\ task.pc = "post"
            /\ Runnable(t)
            /\ last' = LoopAfter(t, [task EXCEPT
                                        !.pc = "receive",
                                        !.calls[n].sent =
                                            payload_messages(conversation_history["default"])])
            /\ UNCHANGED <<conversation_history, current_model, nodes, clock>>

\* The post returns or raises: lines 104-110, or an except clause (116-122).
\* The route then makes its next gateway call or answers.
Receive ==
    \E t \in Tasks, outcome \in LoopOutcomes :
        LET task == last.tasks[t]
            n == Len(task.calls)
            ok == outcome.kind = "ok"
            ended == [task EXCEPT !.calls[n].ended = outcome.kind,
                                  !.calls[n].reply_at = IF ok THEN clock + 1 ELSE 0]
        IN  /\ task.pc = "receive"
            /\ Runnable(t)
            /\ conversation_history' =
                   IF ok
                   THEN [conversation_history EXCEPT
                            !["default"] = Append(@, Message("assistant", Strip(outcome.text),
                                                             clock + 1))]
                   ELSE conversation_history
            /\ clock' = IF ok THEN clock + 1 ELSE clock
            /\ last' = LoopAfter(t, IF n < CallsOf(task.route)
                                    THEN [ended EXCEPT !.pc = "append_user",
                                                       !.calls = Append(@, NewCall)]
                                    ELSE [ended EXCEPT !.pc = "done"])
            /\ UNCHANGED <<current_model, nodes>>

NextLoop ==
    \/ Arrive
    \/ ReadBody
    \/ AppendUser
    \/ Post
    \/ Receive

SpecLoop == InitLoop /\ [][NextLoop]_vars

----------------------------------------------------------------------------
(* Claims about the Dedup Filter, checked under SpecFilter.                *)

\* Rules (a)-(c) of the filter as the specification words them, on a
\* lower-cased title and a lower-cased completed entry.
C4_Matches(title, entry) ==
    \/ title = entry
    \/ Contains(entry, title) \/ Contains(title, entry)
    \/ (Contains(S_research, title) /\ Contains(S_research, entry))
    \/ (Contains(S_analyze, title) /\ Contains(S_analyz, entry))
    \/ (Contains(S_identify, title) /\ Contains(S_identif, entry))
    \/ (Contains(S_develop, title) /\ Contains(S_develop, entry))
    \/ (Contains(S_create, title) /\ Contains(S_creat, entry))
    \/ (Contains(S_design, title) /\ Contains(S_design, entry))

C4_Dropped(item, completed) ==
    \E k \in 1..Len(completed) : C4_Matches(Lower(item.v[K_title].v), Lower(completed[k]))

C4_Survivors(items, completed) ==
    SelectSeq(items, LAMBDA item : ~C4_Dropped(item, completed))

\* C4: the filter drops a candidate exactly when some completed entry matches
\* its lower-cased title under rule (a) equality, (b) containment either way or
\* (c) a keyword/stem pair; the candidates that match nothing are the
\* survivors, in input order, and they head the returned list up to the limit.
C4_DedupRules ==
    last.op = "filter" =>
        LET kept == C4_Survivors(last.args.menu_items, last.args.completed_actions)
        IN  /\ last.ret.t = "list"
            /\ filtered_items(last.args.menu_items, last.args.completed_actions) = kept
            /\ Take(last.ret.v, Len(Take(kept, MenuLimit))) = Take(kept, MenuLimit)

\* C4 witness: a filter call in which one candidate is dropped by a stem pair
\* alone (no equality, no containment) and another candidate is kept.
C4_Witness ==
    /\ last.op = "filter"
    /\ \E i, j \in 1..Len(last.args.menu_items) :
        LET a == last.args.menu_items[i]
            b == last.args.menu_items[j]
            done == last.args.completed_actions
        IN  /\ C4_Dropped(a, done)
            /\ \A k \in 1..Len(done) :
                   ~TitleDuplicate(Lower(a.v[K_title].v), Lower(done[k]))
            /\ ~C4_Dropped(b, done)
            /\ \E n \in 1..Len(last.ret.v) : last.ret.v[n] = b
            /\ \A n \in 1..Len(last.ret.v) : last.ret.v[n] # a

ProgressionSet == { progression_actions[i] : i \in 1..Len(progression_actions) }

\* C5: every item the filter returns is one of its candidates or one of the
\* three progression actions, and it returns at most 5 items.
C5_SubsetAndCap ==
    last.op = "filter" =>
        /\ last.ret.t = "list"
        /\ \A n \in 1..Len(last.ret.v) :
               \/ \E i \in 1..Len(last.args.menu_items) : last.ret.v[n] = last.args.menu_items[i]
               \/ last.ret.v[n] \in ProgressionSet
        /\ Len(last.ret.v) <= MenuLimit

\* The progression actions whose lower-cased title is in no completed entry.
C6_Progression(completed) ==
    SelectSeq(progression_actions,
              LAMBDA action :
                  \A k \in 1..Len(completed) :
                      ~Contains(Lower(action.v[K_title].v), Lower(completed[k])))

\* C6: when fewer than 2 candidates survive, the returned list is the
\* survivors followed by Next Phase, Deep Dive, Create Deliverable (less those
\* whose title lies in a completed entry); when 2 or more survive, nothing is
\* appended to the survivors.
C6_ProgressionBackstop ==
    last.op = "filter" =>
        LET kept == C4_Survivors(last.args.menu_items, last.args.completed_actions)
        IN  /\ last.ret.t = "list"
            /\ IF Len(kept) < MinSurvivors
               THEN last.ret.v = kept \o C6_Progression(last.args.completed_actions)
               ELSE last.ret.v = Take(kept, Len(last.ret.v))

----------------------------------------------------------------------------
(* Claims about the Menu Orchestrator, checked under SpecMenu.             *)

TransportFailures == {"timeout", "connect_timeout", "connection"}

\* C1: when the gateway call of generate_menu returns a transport-failure
\* sentinel, generate_menu returns, for every completed-actions list, a list
\* of at least 2 and at most 5 action items, each with a non-empty title.
C1_FallbackMenuSize ==
    (last.op = "generate_menu" /\ last.args.outcome.kind \in TransportFailures) =>
        /\ last.ret.t = "list"
        /\ Len(last.ret.v) >= MinSurvivors
        /\ Len(last.ret.v) <= MenuLimit
        /\ \A n \in 1..Len(last.ret.v) :
               /\ last.ret.v[n].t = "dict"
               /\ K_title \in DOMAIN last.ret.v[n].v
               /\ Truthy(last.ret.v[n].v[K_title])

\* C2: execute_action returns a result instead of raising, whatever its
\* action_id, context, user_input and gateway outcomes, and the result has a
\* non-null content, a sequence as next_actions and a string as model_used.
C2_ExecuteReturnsResult ==
    last.op = "execute_action" =>
        /\ ~last.raised
        /\ last.ret.t = "dict"
        /\ {K_content, K_next_actions, K_model_used} \subseteq DOMAIN last.ret.v
        /\ last.ret.v[K_content] # None
        /\ last.ret.v[K_next_actions].t = "list"
        /\ last.ret.v[K_model_used].t = "str"

\* C3: when the primary generation of execute_action fails (connection
\* failure, timeout or any other gateway failure), execute_action returns a
\* result whose next_actions is empty and whose model_used is "error", and no
\* exception propagates.
C3_FailureIsErrorFlagged ==
    (/\ last.op = "execute_action"
     /\ last.args.first.kind \in TransportFailures \cup {"other"}) =>
        /\ ~last.raised
        /\ last.ret.t = "dict"
        /\ last.ret.v[K_next_actions] = List(<<>>)
        /\ last.ret.v[K_model_used] = Str(<<"error">>)

\* C7: the menu_items answered by the generate-menu route hold no item whose
\* title equals, case-insensitively, an entry of the request's
\* previous_actions.
C7_RouteFiltersPreviousActions ==
    (last.op = "route_generate_menu" /\ last.ret.status = 200) =>
        LET menu_items == last.ret.body.v[K_menu_items].v
            P == last.args.previous_actions
        IN  \A n \in 1..Len(menu_items), k \in 1..Len(P) :
                Lower(menu_items[n].v[K_title].v) # Lower(P[k])

\* C11: every action item generate_menu returns, for every model response
\* and every completed-actions list (the empty one included), has a non-empty
\* string title and carries all of prompt, tools, alt and icon.
C11_ItemsWellFormed ==
    last.op = "generate_menu" =>
        /\ last.ret.t = "list"
        /\ \A n \in 1..Len(last.ret.v) :
               /\ last.ret.v[n].t = "dict"
               /\ {K_title, K_prompt, K_tools, K_alt, K_icon} \subseteq DOMAIN last.ret.v[n].v
               /\ Truthy(last.ret.v[n].v[K_title])

\* C13: a request that lacks a required field is rejected as a client error
\* and not processed: an execute-action request without action_id makes no
\* model call and stores no node, and a set-model request without model_name
\* is answered with status 400 and leaves the active model unchanged.
C13_MissingFieldRejected ==
    [][ /\ (last'.op = "route_execute_action" /\ last'.args.action_id = None) =>
               /\ last'.calls = <<>>
               /\ nodes' = nodes
               /\ last'.ret.status \in 400..499
        /\ (last'.op = "route_set_model" /\ last'.args.model_name = None) =>
               /\ last'.ret.status = 400
               /\ current_model' = current_model
      ]_vars

\* What generate_json_response hands generate_menu for a gateway outcome.
C14_Parsed(outcome) ==
    extract_json(IF outcome.kind = "ok" THEN Strip(outcome.text) ELSE error_return(outcome))

\* C14: a generate_menu request makes exactly one gateway call and does not
\* raise; when the parsed response is a list (and no step raises) it returns
\* filter(validate(response), completed), and in every other case the
\* fallback catalogue filtered against the same completed-actions list.
C14_OneCallTwoPaths ==
    last.op = "generate_menu" =>
        LET completed == last.args.completed_actions
            fallback == generate_fallback_menu(DefaultRole, <<"Q3 launch">>, completed)
            Expected(parsed) ==
                IF parsed.t # "list" THEN fallback
                ELSE LET Result(filtered) == IF IsRaise(filtered) THEN fallback ELSE filtered
                     IN  Apply(Result, filter_completed_actions(validate_menu_items(parsed.v),
                                                                completed))
        IN  /\ Len(last.calls) = 1
            /\ ~last.raised
            /\ last.ret = Apply(Expected, C14_Parsed(last.args.outcome))

----------------------------------------------------------------------------
(* Claims about the Model Gateway, checked under SpecGateway.              *)

\* What the gateway holds for a session: whether it is present, and its
\* message list.
SessionState(history, sid) ==
    IF sid \in DOMAIN history THEN history[sid] ELSE <<"absent">>

\* C8: a gateway operation on one session (generate_response,
\* generate_json_response, clear_conversation, get_conversation_summary)
\* leaves every other session's message list as it was, and no stored message
\* is found in two sessions.
C8_SessionIsolation ==
    [][ /\ \A b \in SessionIds :
             b # last'.args.session_id =>
                 SessionState(conversation_history', b) = SessionState(conversation_history, b)
        /\ \A a, b \in DOMAIN conversation_history' :
             a # b =>
                 \A i \in 1..Len(conversation_history'[a]),
                    j \in 1..Len(conversation_history'[b]) :
                     conversation_history'[a][i].at # conversation_history'[b][j].at
      ]_vars

\* C8 witness: a call has just stored messages under session "A" while session
\* "default" holds messages of its own.
C8_Witness ==
    /\ last.op \in {"generate_response", "generate_json_response"}
    /\ last.args.session_id = "A"
    /\ {"A", "default"} \subseteq DOMAIN conversation_history
    /\ conversation_history["A"] # <<>>
    /\ conversation_history["default"] # <<>>

\* C9: every session's message list holds at most one system message, at
\* position 0 when there is one, and its other messages stand in the order in
\* which they were appended.
C9_LeadingSystemAndOrder ==
    \A sid \in DOMAIN conversation_history :
        LET messages == conversation_history[sid]
        IN  /\ \A i \in 1..Len(messages) : messages[i].role = "system" => i = 1
            /\ \A i, j \in 1..Len(messages) :
                   (i < j /\ messages[i].role # "system" /\ messages[j].role # "system")
                       => messages[i].at < messages[j].at

\* C9 witness: a session that got its system message when messages were
\* already stored, and on which a later call, again with a system prompt, has
\* stored its user message without a second system message.
C9_Witness ==
    /\ last.op \in {"generate_response", "generate_json_response"}
    /\ Truthy(last.args.system_prompt)
    /\ LET messages == conversation_history[last.args.session_id]
       IN  /\ Len(messages) >= 4
           /\ messages[1].role = "system"
           /\ messages[1].at > messages[2].at
           /\ \E i \in 1..Len(messages) :
                  messages[i].role = "user" /\ messages[i].at > messages[1].at + 1

\* C10: generate_response does not raise; on a connection failure it returns
\* the connection sentinel, on a timeout the timeout sentinel, which differs
\* from it, on any other failure "Error: " followed by the failure's
\* description; each of these is a string beginning with "Error:".
C10_FailureSentinels ==
    last.op = "generate_response" =>
        /\ ~last.raised
        /\ last.ret.t = "str"
        /\ TimeoutSentinel # ConnectionSentinel
        /\ last.args.outcome.kind # "ok" =>
               /\ Take(last.ret.v, Len(S_ErrorColon)) = S_ErrorColon
               /\ last.args.outcome.kind = "connection" => last.ret.v = ConnectionSentinel
               /\ IsTimeout(last.args.outcome.kind) => last.ret.v = TimeoutSentinel
               /\ last.args.outcome.kind = "other" =>
                      /\ last.ret.v = S_ErrorPrefix \o last.args.outcome.text
                      /\ Contains(last.args.outcome.text, last.ret.v)

\* C10 witness: generate_response has returned after a read timeout.
C10_Witness ==
    /\ last.op = "generate_response"
    /\ last.args.outcome.kind = "timeout"
    /\ last.ret = Str(TimeoutSentinel)
    /\ ~last.raised

----------------------------------------------------------------------------
(* Claims about the JSON extraction, checked under SpecExtract.            *)

\* C12: for a raw text made of a JSON value J (an object or an array of
\* objects) with brace-free prose before and/or after it, the extraction
\* returns J; for a raw text from which no JSON value can be parsed it returns
\* the parse-failure value: an error key and the raw text unchanged.
C12_ExtractionToleratesProse ==
    last.op = "extract_json" =>
        /\ last.args.kind = "wrapped" =>
               last.ret = json_loads(last.args.json).val
        /\ last.args.kind = "unparseable" =>
               /\ last.ret.t = "dict"
               /\ K_error \in DOMAIN last.ret.v
               /\ DictGet(last.ret, K_raw_response, None) = Str(last.args.response_text)

----------------------------------------------------------------------------
(* Claims about the gateway's message lists, checked under SpecGateway.    *)

\* The role and content of each stored message, as sent to the LLM.
C15_Sendable(messages) ==
    [i \in 1..Len(messages) |-> [role |-> messages[i].role, content |-> messages[i].content]]

\* The messages after the leading system message, when there is one.
C15_Turns(messages) ==
    IF messages # <<>> /\ messages[1].role = "system" THEN Tail(messages) ELSE messages

\* C15: a text-generation call on a session appends a user message holding
\* the prompt and then an assistant message holding the reply; after any
\* sequence of calls, successful or failed, the messages after the optional
\* leading system message alternate user, assistant; and the list sent to the
\* LLM is the whole stored history ending in the new user message.
C15_UserThenAssistant ==
    /\ \A sid \in DOMAIN conversation_history :
           LET turns == C15_Turns(conversation_history[sid])
           IN  \A i \in 1..Len(turns) :
                   turns[i].role = IF i % 2 = 1 THEN "user" ELSE "assistant"
    /\ last.op \in {"generate_response", "generate_json_response"} =>
           LET messages == conversation_history[last.args.session_id]
               n == Len(messages)
               sent == last.calls[1].sent.messages
               prompt == IF last.op = "generate_response" THEN <<"Hello">>
                         ELSE <<"List the steps">>
           IN  /\ n >= 2
               /\ messages[n - 1].role = "user"
               /\ messages[n - 1].content = prompt
               /\ messages[n].role = "assistant"
               /\ sent = C15_Sendable(SubSeq(messages, 1, n - 1))

\* C16: for every generate_json_response call, whatever the session already
\* holds, the message list sent to the LLM starts with a system message made
\* of the JSON-only instruction followed by the call's own system prompt, and
\* the request is sent with temperature 0.3.
C16_JsonInstructionLeads ==
    last.op = "generate_json_response" =>
        LET sent == last.calls[1].sent
            system_prompt == last.args.system_prompt
            instruction == IF Truthy(system_prompt)
                           THEN json_system \o <<" ">> \o system_prompt.v
                           ELSE json_system
        IN  /\ sent.temperature = "0.3"
            /\ sent.messages # <<>>
            /\ sent.messages[1] = [role |-> "system", content |-> instruction]

----------------------------------------------------------------------------
(* Claims about validation, checked under SpecValidate.                    *)

C18_Keys == {K_title, K_prompt, K_tools, K_alt, K_icon}

\* The elements of X that are a map with a title key, in input order.
C18_Titled(X) ==
    SelectSeq(X, LAMBDA x : x.t = "dict" /\ K_title \in DOMAIN x.v)

\* C18: validate(X) holds one item per element of X that is a map with a
\* title key, in input order; validate(validate(X)) = validate(X); and a
\* sequence of canonical items (exactly the keys title, prompt, tools, alt,
\* icon) is returned unchanged.
C18_ValidateIdempotent ==
    /\ last.op \in {"validate", "validate_again"} =>
           LET X == last.args.items
               titled == C18_Titled(X)
               out == IF last.op = "validate" THEN last.ret.v ELSE last.args.first.v
           IN  /\ Len(out) = Len(titled)
               /\ \A i \in 1..Len(out) :
                      /\ DOMAIN out[i].v = C18_Keys
                      /\ \A key \in C18_Keys \cap DOMAIN titled[i].v :
                             out[i].v[key] = titled[i].v[key]
               /\ (\A i \in 1..Len(X) : X[i].t = "dict" /\ DOMAIN X[i].v = C18_Keys)
                      => out = X
    /\ last.op = "validate_again" => last.ret = last.args.first

\* C18 witness: a list validated twice in which an element was skipped, a
\* kept item had its missing fields filled in, and a canonical item came
\* through as it was.
C18_Witness ==
    /\ last.op = "validate_again"
    /\ Len(last.args.first.v) < Len(last.args.items)
    /\ \E i \in 1..Len(last.ret.v) : last.ret.v[i] \notin RawPool
    /\ \E i \in 1..Len(last.ret.v) : last.ret.v[i] \in RawPool

----------------------------------------------------------------------------
(* Claims about the fallback menu, checked under SpecFallback.             *)

\* C19: for every completed-actions list, the fallback catalogue after the
\* filter (survivors followed by any appended progression actions) holds no
\* two items with the same title.
C19_FallbackTitlesDistinct ==
    last.op = "fallback" =>
        /\ last.ret.t = "list"
        /\ \A i, j \in 1..Len(last.ret.v) :
               i # j => last.ret.v[i].v[K_title] # last.ret.v[j].v[K_title]

----------------------------------------------------------------------------
(* Claims about concurrent requests, checked under SpecLoop.               *)

\* The position in the session's list of the message stamped `at` (0: none).
C17_IndexOf(at) ==
    LET messages == IF "default" \in DOMAIN conversation_history
                    THEN conversation_history["default"] ELSE <<>>
        found == { i \in 1..Len(messages) : messages[i].at = at }
    IN  IF found = {} THEN 0 ELSE CHOOSE i \in found : TRUE

\* A call whose user message is stored and whose post has not returned.
C17_InFlight(call) == call.user_at # 0 /\ call.ended = ""

\* C17: with several generate-menu / execute-action requests served at once
\* on one session, the user message of every successful gateway call is
\* directly followed by the assistant reply to that call, and no request is
\* sent with the unanswered user message of another call in flight.
C17_GatewayCallAtomic ==
    last.op = "event_loop" =>
        \A t \in Tasks :
            \A n \in 1..Len(last.tasks[t].calls) :
                LET call == last.tasks[t].calls[n]
                IN  /\ call.ended = "ok" =>
                           /\ C17_IndexOf(call.user_at) # 0
                           /\ C17_IndexOf(call.reply_at) = C17_IndexOf(call.user_at) + 1
                    /\ \A u \in Tasks \ {t} :
                           \A k \in 1..Len(last.tasks[u].calls) :
                               LET other == last.tasks[u].calls[k]
                               IN  (C17_InFlight(other) /\ call.sent # <<>>) =>
                                       C17_IndexOf(other.user_at) > Len(call.sent)

\* C17 witness: two requests on the same session are in progress at once.
\* One has made a successful gateway call and has sent the request of its
\* next call, which is unanswered; the other has been received and stands at
\* its await.
C17_Witness ==
    /\ last.op = "event_loop"
    /\ \E t, u \in Tasks :
           /\ t # u
           /\ last.tasks[t].pc = "receive"
           /\ Len(last.tasks[t].calls) = 2
           /\ last.tasks[t].calls[1].ended = "ok"
           /\ last.tasks[t].calls[2].sent # <<>>
           /\ last.tasks[u].pc = "body"

====
